---- MODULE Spec2Model ----
(***************************************************************************)
(* A model of src/xml.c, the "Little XML library for C".                   *)
(*                                                                         *)
(* C strings are sequences of one-character strings; the terminating NUL   *)
(* is implicit: the character at index Len(s) (0-based) is NUL.  An XML    *)
(* value (the C union of a tag pointer and a char pointer) is a record     *)
(* whose field kind says what the pointer points to: "tag", "str" or       *)
(* "null".                                                                 *)
(***************************************************************************)
EXTENDS Integers, Sequences, FiniteSets, TLC

VARIABLES failp, failspot, slack, op, arg, xml, text, obs

vars == <<failp, failspot, slack, op, arg, xml, text, obs>>

(***************************************************************************)
(* Characters                                                              *)
(***************************************************************************)
NUL == "NUL"
\* what a read past the terminator yields (never reached by the code as written)
OOB == "OOB"

Max(a, b) == IF a >= b THEN a ELSE b

\* s[p] of the C code, 0-based
Peek(s, p) == IF p < Len(s) THEN s[p + 1] ELSE IF p = Len(s) THEN NUL ELSE OOB

\* the characters s[from .. to-1], 0-based, as memcpy copies them
Slice(s, from, to) == IF to <= from THEN << >> ELSE SubSeq(s, from + 1, to)

isspace(c) == c \in {" ", "\t", "\n", "\f", "\r"}

(***************************************************************************)
(* XML values                                                              *)
(***************************************************************************)
NullXML == [kind |-> "null"]
Str(s) == [kind |-> "str", str |-> s]
Tag(name, attrs, contents) ==
    [kind |-> "tag", name |-> name, attrs |-> attrs, contents |-> contents]
Attr(name, value) == [name |-> name, value |-> value]

XML_is_valid(x) == x.kind # "null"

(***************************************************************************)
(* XML_is_str reads xml.tag->is_str, the first sizeof(uint) bytes of what  *)
(* the pointer points to.  For a tag that is the field set to 0.  For a    *)
(* string it is the first bytes of the string: nonzero when the string is  *)
(* not empty, and for the empty string bytes that lie after its            *)
(* terminator.  mem is what that memory holds:                             *)
(*   "nonzero"   some byte after the terminator is not 0                   *)
(*   "fault"     the bytes are 0 and the tag fields read next cannot be    *)
(*               dereferenced (zero-filled GC memory: name is NULL)        *)
(*   "empty_tag" the bytes are 0 and the fields read next look like a tag  *)
(*               with an empty name, no attributes and no contents         *)
(***************************************************************************)
MemStates == {"nonzero", "fault", "empty_tag"}

XML_is_str(x, mem) ==
    IF x.kind = "tag" THEN FALSE
    ELSE IF Len(x.str) > 0 THEN TRUE
    ELSE mem = "nonzero"

\* results of the operations that may not return
Ok(v) == [fault |-> FALSE, val |-> v]
Fault == [fault |-> TRUE, val |-> 0]

\* escaped width of one character (the switch of XML_strlen)
EscWidth(c) ==
    CASE c \in {"<", ">"} -> 4
      [] c = "&" -> 5
      [] c = "\"" -> 6
      [] OTHER -> 1

RECURSIVE SumEsc(_)
SumEsc(s) == IF s = << >> THEN 0 ELSE EscWidth(Head(s)) + SumEsc(Tail(s))

\* the replacement text of one character (the switch of XML_escape)
EscText(c) ==
    CASE c = "<" -> <<"&", "l", "t", ";">>
      [] c = ">" -> <<"&", "g", "t", ";">>
      [] c = "&" -> <<"&", "a", "m", "p", ";">>
      [] c = "\"" -> <<"&", "q", "u", "o", "t", ";">>
      [] OTHER -> <<c>>

RECURSIVE EscCopy(_)
EscCopy(s) == IF s = << >> THEN << >> ELSE EscText(Head(s)) \o EscCopy(Tail(s))

(***************************************************************************)
(* XML_strlen, XML_escape, XML_unescape, XML_as_text                       *)
(***************************************************************************)
AddR(a, b) == IF a.fault \/ b.fault THEN Fault ELSE Ok(a.val + b.val)

\* the tag a non-string pointer is read as: the tag itself, or, for an empty
\* string taken for a tag under mem = "empty_tag", the fields found there
TagAt(x) == IF x.kind = "tag" THEN x ELSE Tag(<< >>, << >>, << >>)

RECURSIVE XML_strlen(_, _)
RECURSIVE SumContents(_, _)
RECURSIVE SumAttrs(_, _)

\* for (i = 0; i < n_contents; i++) r += XML_strlen(contents[i])
SumContents(cs, mem) ==
    IF cs = << >> THEN Ok(0)
    ELSE AddR(XML_strlen(Head(cs), mem), SumContents(Tail(cs), mem))

\* for (i = 0; i < n_attrs; i++) r += 4 + strlen(name) + XML_strlen(value)
SumAttrs(as, mem) ==
    IF as = << >> THEN Ok(0)
    ELSE AddR(AddR(Ok(4 + Len(Head(as).name)), XML_strlen(Str(Head(as).value), mem)),
              SumAttrs(Tail(as), mem))

XML_strlen(x, mem) ==
    IF XML_is_str(x, mem) THEN Ok(SumEsc(x.str))
    ELSE IF x.kind = "str" /\ mem = "fault" THEN Fault
    ELSE LET t == TagAt(x)
             body == IF Len(t.contents) > 0
                     THEN AddR(Ok(5 + 2 * Len(t.name)), SumContents(t.contents, mem))
                     ELSE Ok(3 + Len(t.name))
         IN  AddR(body, SumAttrs(t.attrs, mem))

\* the buffer is sized by XML_strlen((XML)in) and then filled by the copy loop
XML_escape(in, mem) ==
    IF XML_strlen(Str(in), mem).fault THEN Fault ELSE Ok(EscCopy(in))

\* the four entities XML_unescape knows: the characters after '&' and the
\* character they stand for
Entities ==
    { [pat |-> <<"l", "t", ";">>, ch |-> "<"],
      [pat |-> <<"g", "t", ";">>, ch |-> ">"],
      [pat |-> <<"a", "m", "p", ";">>, ch |-> "&"],
      [pat |-> <<"q", "u", "o", "t", ";">>, ch |-> "\""] }

\* how many leading characters of pat stand at in[i+1], in[i+2], ...: the
\* nested ifs read in[i+k+1] only after in[i+1..i+k] matched
RECURSIVE MatchLen(_, _, _, _)
MatchLen(in, i, pat, k) ==
    IF k < Len(pat) /\ Peek(in, i + k + 1) = pat[k + 1]
    THEN MatchLen(in, i, pat, k + 1)
    ELSE k

\* the last index the nested ifs read for the '&' at in[i]
AmpLastRead(in, i) ==
    LET ks == {Max(1, IF MatchLen(in, i, e.pat, 0) = Len(e.pat)
                      THEN Len(e.pat) ELSE MatchLen(in, i, e.pat, 0) + 1) : e \in Entities}
    IN  i + (CHOOSE k \in ks : \A j \in ks : j <= k)

\* the loop of XML_unescape from in[i] on: the output and the last index read
RECURSIVE UnescapeFrom(_, _)
UnescapeFrom(in, i) ==
    IF Peek(in, i) = NUL THEN [out |-> << >>, mr |-> i]
    ELSE IF Peek(in, i) = "&"
    THEN LET hit == {e \in Entities : MatchLen(in, i, e.pat, 0) = Len(e.pat)}
             e == CHOOSE e \in hit : TRUE
             c == IF hit = {} THEN "&" ELSE e.ch
             skip == IF hit = {} THEN 0 ELSE Len(e.pat)
             rest == UnescapeFrom(in, i + skip + 1)
         IN  [out |-> <<c>> \o rest.out, mr |-> Max(AmpLastRead(in, i), rest.mr)]
    ELSE LET rest == UnescapeFrom(in, i + 1)
         IN  [out |-> <<Peek(in, i)>> \o rest.out, mr |-> rest.mr]

XML_unescape(in) == UnescapeFrom(in, 0).out

\* the index of the last character XML_unescape reads
UnescapeMaxRead(in) == UnescapeFrom(in, 0).mr

RECURSIVE XML_as_text(_, _)
RECURSIVE TextOfContents(_, _)
RECURSIVE TextOfAttrs(_, _)

CatR(a, b) == IF a.fault \/ b.fault THEN Fault ELSE Ok(a.val \o b.val)

TextOfContents(cs, mem) ==
    IF cs = << >> THEN Ok(<< >>)
    ELSE CatR(XML_as_text(Head(cs), mem), TextOfContents(Tail(cs), mem))

\* (space)name="escaped value" for each attribute
TextOfAttrs(as, mem) ==
    IF as = << >> THEN Ok(<< >>)
    ELSE CatR(CatR(Ok(<<" ">> \o Head(as).name \o <<"=", "\"">>),
                   CatR(XML_escape(Head(as).value, mem), Ok(<<"\"">>))),
              TextOfAttrs(Tail(as), mem))

XML_as_text(x, mem) ==
    IF XML_is_str(x, mem) THEN XML_escape(x.str, mem)
    ELSE IF XML_strlen(x, mem).fault THEN Fault
    ELSE LET t == TagAt(x)
             head == CatR(Ok(<<"<">> \o t.name), TextOfAttrs(t.attrs, mem))
         IN  IF Len(t.contents) > 0
             THEN CatR(CatR(head, Ok(<<">">>)),
                       CatR(TextOfContents(t.contents, mem),
                            Ok(<<"<", "/">> \o t.name \o <<">">>)))
             ELSE CatR(head, Ok(<<"/", ">">>))

(***************************************************************************)
(* The parser                                                              *)
(***************************************************************************)
XML_isnamechar(c) == c # NUL /\ c \notin {">", "/", "\"", "="} /\ ~isspace(c)
XML_isntnamechar(c) == ~XML_isnamechar(c)
XML_isquote(c) == c = "\""
XML_islt(c) == c = "<"

\* f(c) for the function pointer f handed to XML_extract_until
Call(f, c) ==
    CASE f = "XML_isntnamechar" -> XML_isntnamechar(c)
      [] f = "XML_isquote" -> XML_isquote(c)
      [] f = "XML_islt" -> XML_islt(c)

\* ScanUntil without the test for the terminator: the scan runs on into the
\* memory after the string
RECURSIVE ScanUntil_NoNul(_, _, _)
ScanUntil_NoNul(s, e, f) ==
    IF ~Call(f, Peek(s, e)) /\ e <= Len(s) THEN ScanUntil_NoNul(s, e + 1, f) ELSE e

\* while ((*pp)[i] && !f((*pp)[i])) i++;   e is the index the loop stops at
RECURSIVE ScanUntil(_, _, _)
ScanUntil(s, e, f) ==
    IF Peek(s, e) # NUL /\ ~Call(f, Peek(s, e)) THEN ScanUntil(s, e + 1, f) ELSE e

\* NULL when the scan ended at the terminator and f does not hold of it;
\* otherwise the copy of s[p..e-1], with the cursor moved to e.  mr is the
\* last index read.
XML_extract_until(s, p, f) ==
    LET e == ScanUntil(s, p, f)
    IN  IF ~Call(f, Peek(s, e))
        THEN [null |-> TRUE, str |-> << >>, p |-> p, mr |-> e]
        ELSE [null |-> FALSE, str |-> Slice(s, p, e), p |-> e, mr |-> e]

XML_extract_name(s, p) == XML_extract_until(s, p, "XML_isntnamechar")

\* while (isspace(**pp)) (*pp)++;   the result is the last index read
RECURSIVE XML_eatws(_, _)
XML_eatws(s, p) == IF isspace(Peek(s, p)) THEN XML_eatws(s, p + 1) ELSE p

\* MatchName comparing the first character only
MatchName_FirstChar(s, p, name, i) ==
    IF i < Len(name) /\ Peek(s, p + i) = name[i + 1] THEN Len(name) ELSE i

\* for (i = 0; i < namelen; i++) if (*p++ != name[i]) goto ERR_NEW;
\* the number of characters of name found at s[p], s[p+1], ...
RECURSIVE MatchName(_, _, _, _)
MatchName(s, p, name, i) ==
    IF i < Len(name) /\ Peek(s, p + i) = name[i + 1]
    THEN MatchName(s, p, name, i + 1)
    ELSE i

\* What XML_parse_tag hands back.  ok: a tag was returned and *pp moved to p.
\* Otherwise NULL was returned and failp was set to the offset failp.
\* mr: the last index of s read.  sub: every XML_unescape call made on the
\* way stayed inside the string it was given.  closes: for every closing tag
\* accepted on the way, the name of the element it closed and the index at
\* which the comparison with that name began.
PDone(x, p, mr, sub, closes) ==
    [ok |-> TRUE, xml |-> x, p |-> p, failp |-> 0, mr |-> mr, sub |-> sub,
     closes |-> closes]
PFail(fp, mr, sub) ==
    [ok |-> FALSE, xml |-> NullXML, p |-> 0, failp |-> fp, mr |-> mr, sub |-> sub,
     closes |-> << >>]

\* the attribute loop, lines 325-342
RECURSIVE ParseAttrs(_, _, _, _)
ParseAttrs(s, p, attrs, sub) ==
    IF ~XML_isnamechar(Peek(s, p))
    THEN [ok |-> TRUE, attrs |-> attrs, p |-> p, failp |-> 0, mr |-> p, sub |-> sub]
    ELSE
    LET bad(fp, mr) ==
            [ok |-> FALSE, attrs |-> attrs, p |-> 0, failp |-> fp, mr |-> mr, sub |-> sub]
        nm == XML_extract_name(s, p)
        p1 == XML_eatws(s, nm.p)
        p2 == XML_eatws(s, p1 + 1)
        v == XML_extract_until(s, p2 + 1, "XML_isquote")
        u == UnescapeFrom(v.str, 0)
        p3 == XML_eatws(s, v.p + 1)
    IN  IF nm.null \/ Len(nm.str) = 0 THEN bad(nm.p, nm.mr)
        ELSE IF Peek(s, p1) # "=" THEN bad(p1 + 1, p1)
        ELSE IF Peek(s, p2) # "\"" THEN bad(p2 + 1, p2)
        ELSE IF v.null THEN bad(v.p, v.mr)
        ELSE IF Peek(s, v.p) # "\"" THEN bad(v.p + 1, v.p)
        ELSE IF Peek(s, p3) = NUL THEN bad(p3, p3)
        ELSE ParseAttrs(s, p3, Append(attrs, Attr(nm.str, u.out)),
                        sub /\ u.mr <= Len(v.str))

RECURSIVE XML_parse_tag(_, _)
RECURSIVE ParseContents(_, _, _, _, _, _, _)

\* lines 389-393: child is what the recursive call at s[p] returned, q the
\* index read before it to tell a child from a closing tag
AfterChild(s, q, name, attrs, contents, sub, closes, child) ==
    IF ~child.ok
    THEN PFail(child.failp, Max(q, child.mr), sub /\ child.sub)
    ELSE ParseContents(s, child.p, name, attrs, Append(contents, child.xml),
                       sub /\ child.sub, closes \o child.closes)

\* the for (;;) loop, lines 362-404
ParseContents(s, p, name, attrs, contents, sub, closes) ==
    IF Peek(s, p) = "<"
    THEN LET q == XML_eatws(s, p + 1)
         IN  IF Peek(s, q) = "/"
             THEN LET q1 == XML_eatws(s, q + 1)
                      m == MatchName(s, q1, name, 0)
                      q2 == XML_eatws(s, q1 + Len(name))
                  IN  IF m < Len(name) THEN PFail(q1 + m + 1, q1 + m, sub)
                      ELSE IF Peek(s, q2) # ">" THEN PFail(q2 + 1, q2, sub)
                      ELSE PDone(Tag(name, attrs, contents), q2 + 1, q2, sub,
                                 Append(closes, [name |-> name, at |-> q1]))
             ELSE AfterChild(s, q, name, attrs, contents, sub, closes,
                             XML_parse_tag(s, p))
    ELSE LET t == XML_extract_until(s, p, "XML_islt")
             u == UnescapeFrom(t.str, 0)
         IN  IF t.null THEN PFail(t.p, t.mr, sub)
             ELSE ParseContents(s, t.p, name, attrs, Append(contents, Str(u.out)),
                                sub /\ u.mr <= Len(t.str), closes)

\* lines 343-406: what follows the attribute loop; at is what the loop left
AfterAttrs(s, name, at) ==
    IF ~at.ok THEN PFail(at.failp, at.mr, at.sub)
    ELSE IF Peek(s, at.p) = "/"
    THEN LET p3 == XML_eatws(s, at.p + 1)
         IN  IF Peek(s, p3) # ">" THEN PFail(p3 + 1, p3, at.sub)
             ELSE PDone(Tag(name, at.attrs, << >>), p3 + 1, p3, at.sub, << >>)
    ELSE IF Peek(s, at.p) = ">"
    THEN IF Peek(s, at.p + 1) = NUL THEN PFail(at.p + 1, at.p + 1, at.sub)
         ELSE ParseContents(s, at.p + 1, name, at.attrs, << >>, at.sub, << >>)
    ELSE PFail(at.p, at.p, at.sub)

XML_parse_tag(s, p0) ==
    LET p1 == XML_eatws(s, p0 + 1)
        nm == XML_extract_name(s, p1)
    IN  IF Peek(s, p0) # "<" THEN PFail(p0 + 1, p0, TRUE)
        ELSE IF Peek(s, p1) = NUL THEN PFail(p1, p1, TRUE)
        ELSE IF nm.null \/ Len(nm.str) = 0 THEN PFail(nm.p, nm.mr, TRUE)
        ELSE AfterAttrs(s, nm.str, ParseAttrs(s, XML_eatws(s, nm.p), << >>, TRUE))

\* A uint (32 bits) holding the integer d modulo 2^32, kept as its two 16-bit
\* halves: the value is hi * 65536 + lo.
Uint(d) == [hi |-> (d \div 65536) % 65536, lo |-> d % 65536]

\* lines 414-416, with r what XML_parse_tag returned.  p is the local cursor
\* after XML_parse_tag: moved only when a tag was returned.  failp is written
\* only on the error path of XML_parse_tag; failspot is failp - p, as a
\* uint, in either case.  endtest: the test of *p at line 415 is made.
ParseEnd(s, base, fp, r, endtest) ==
    LET p == IF r.ok THEN r.p ELSE 0
        newfp == IF r.ok THEN fp ELSE base + r.failp
    IN  [xml |-> IF endtest /\ Peek(s, p) # NUL THEN NullXML ELSE r.xml,
         failp |-> newfp,
         failspot |-> Uint(newfp - (base + p)),
         tag |-> r,
         mr |-> IF endtest THEN Max(r.mr, p) ELSE r.mr]

\* XML_parse without the test that the whole string was consumed
XML_parse_NoEndTest(s, base, fp) == ParseEnd(s, base, fp, XML_parse_tag(s, 0), FALSE)

\* XML_parse on the string s stored at address base, with the global failp
\* holding fp when it is called
XML_parse(s, base, fp) == ParseEnd(s, base, fp, XML_parse_tag(s, 0), TRUE)

\* XML_parse_n: the first n bytes of d, copied and terminated, then parsed
XML_parse_n(d, n, base, fp) == XML_parse(Slice(d, 0, n), base, fp)

(***************************************************************************)
(* Construction and lookup                                                 *)
(***************************************************************************)
\* XML_tag: the name, the attribute pairs and the children as given, nothing
\* checked; a child is a string or a tag built before
XML_tag(name, attrs, contents) == Tag(name, attrs, contents)

\* GetAttrFrom taking an empty value for no value
RECURSIVE GetAttrFrom_EmptyIsNull(_, _, _)
GetAttrFrom_EmptyIsNull(attrs, name, i) ==
    IF i > Len(attrs) THEN [null |-> TRUE, str |-> << >>]
    ELSE IF attrs[i].name = name
    THEN [null |-> attrs[i].value = << >>, str |-> attrs[i].value]
    ELSE GetAttrFrom_EmptyIsNull(attrs, name, i + 1)

\* the loop of XML_get_attr from attribute i on (1-based): NULL, or the
\* pointer to the value of the first attribute named name
RECURSIVE GetAttrFrom(_, _, _)
GetAttrFrom(attrs, name, i) ==
    IF i > Len(attrs) THEN [null |-> TRUE, str |-> << >>]
    ELSE IF attrs[i].name = name THEN [null |-> FALSE, str |-> attrs[i].value]
    ELSE GetAttrFrom(attrs, name, i + 1)

XML_get_attr(x, name) == GetAttrFrom(x.attrs, name, 1)

(***************************************************************************)
(* Inputs                                                                  *)
(***************************************************************************)
\* the characters of a string literal, one per element
C(str) == [i \in 1..Len(str) |-> SubSeq(str, i, i)]

\* all strings over chars of length at most n
StrsUpTo(chars, n) == UNION {[1..k -> chars] : k \in 0..n}

\* every string of tag syntax up to a length, handed to XML_parse
MaxInput == 4
ShortChars == {"<", ">", "/", "a", " "}
ShortInputs == StrsUpTo(ShortChars, MaxInput)

\* documents handed to XML_parse_n, which is called with every length
Docs ==
    { C("<a b=\"\" c=\"&lt;\">t<b/></a>"),
      C("< a b = \"x\" / >"), C("<a><b>x</b></ a >"),
      C("<a>x</a>y"), C("<a/><b/>"), C("<a>&quot;&am</a>"), C("<a b=\"x>y\"></a> ") }

\* strings handed to XML_unescape, each cut at every length
EntityTexts == {C("&lt;&gt;&amp;&quot;"), C("a&amp;lt;b&quo"), C("&&l&lt&amq;")}

\* element names for the closing-tag family: with two letters and a capital
\* there are names that are a proper prefix or a proper extension of another
\* and names that differ only in case
MaxName == 2
NameChars == {"a", "b", "A"}
TagNames == StrsUpTo(NameChars, MaxName) \ {<< >>}

\* <open>body</ close >, with or without the optional white space
CloseDoc(open, body, pad, close) ==
    <<"<">> \o open \o <<">">> \o body \o <<"<", "/">> \o pad \o close \o pad \o <<">">>

\* the constructs of full XML that the library has no syntax for, each with
\* the element name the name scan of XML_parse_tag takes from it
Markup ==
    { [text |-> C("<?a?>"), name |-> C("?a?")],
      [text |-> C("<?xml v=\"1\"?>"), name |-> C("?xml")],
      [text |-> C("<!--a-->"), name |-> C("!--a--")],
      [text |-> C("<![CDATA[a]]>"), name |-> C("![CDATA[a]]")],
      [text |-> C("<!DOCTYPE a>"), name |-> C("!DOCTYPE")] }

\* where a construct stands in the input: alone, before, inside or after the
\* document element, or followed by text and a closing tag that spells the
\* name scanned from it
MarkupPlaces == {"alone", "prolog", "child", "after", "closed", "closed_child"}

MarkupDoc(m, place) ==
    CASE place = "alone" -> m.text
      [] place = "prolog" -> m.text \o C("<a/>")
      [] place = "child" -> C("<a>") \o m.text \o C("</a>")
      [] place = "after" -> C("<a/>") \o m.text
      [] place = "closed" -> m.text \o C("x</") \o m.name \o C(">")
      [] place = "closed_child" ->
            C("<a>") \o m.text \o C("x</") \o m.name \o C(">") \o C("</a>")

\* the address at which the caller's string is stored
Bases == {64}

(***************************************************************************)
(* The state: the globals failp and failspot; slack, what lies in memory   *)
(* after the terminator of an empty string; and what the caller holds      *)
(* after the last call: op (the call), arg (its arguments), xml and text   *)
(* (the values returned) and obs (what the call did, for the properties).  *)
(***************************************************************************)
NoArg == [s |-> << >>, family |-> "none"]
NoObs == [fault |-> FALSE]

Fresh ==
    /\ failp = 0
    /\ failspot = Uint(0)
    /\ op = "idle"
    /\ arg = NoArg
    /\ xml = NullXML
    /\ text = << >>
    /\ obs = NoObs

\* The parser never calls XML_is_str, so what slack is makes no difference to it.
Init == Fresh /\ slack = "nonzero"

\* the caller lets go of what the last call returned (the collector frees it)
Drop ==
    /\ op # "idle"
    /\ ~obs.fault
    /\ op' = "idle"
    /\ arg' = NoArg
    /\ xml' = NullXML
    /\ text' = << >>
    /\ obs' = NoObs
    /\ UNCHANGED <<failp, failspot, slack>>

\* a call of XML_parse on the string a.s; what it returns is kept in xml
DoParse(a) ==
    \E base \in Bases : \E r \in {XML_parse(a.s, base, failp)} :
        /\ failp' = r.failp
        /\ failspot' = r.failspot
        /\ op' = "XML_parse"
        /\ arg' = a
        /\ xml' = r.xml
        /\ obs' = [fault |-> FALSE, mr |-> r.mr, sub |-> r.tag.sub,
                   tagok |-> r.tag.ok,
                   stop |-> IF r.tag.ok THEN r.tag.p ELSE r.tag.failp,
                   closes |-> r.tag.closes]

Parse ==
    /\ op = "idle"
    /\ \E s \in ShortInputs : DoParse([s |-> s, family |-> "short"])
    /\ UNCHANGED <<slack, text>>

ParseN ==
    /\ op = "idle"
    /\ \E d \in Docs : \E n \in 0..Len(d) :
          DoParse([s |-> Slice(d, 0, n), family |-> "doc"])
    /\ UNCHANGED <<slack, text>>

Unescape ==
    /\ op = "idle"
    /\ \E d \in EntityTexts : \E n \in 0..Len(d) : \E s \in {Slice(d, 0, n)} :
          /\ op' = "XML_unescape"
          /\ arg' = [s |-> s, family |-> "entity"]
          /\ text' = XML_unescape(s)
          /\ obs' = [fault |-> FALSE, mr |-> UnescapeMaxRead(s)]
    /\ UNCHANGED <<failp, failspot, slack, xml>>

Next == Parse \/ ParseN \/ Unescape \/ Drop

Spec == Init /\ [][Next]_vars

\* C4: when XML_parse returns the invalid value, failspot is the offset, in
\* the string of that call, at which the parse stopped: where XML_parse_tag
\* gave up, or, after a complete element, where the rest of the string
\* begins; whatever the calls made before.
C4_FailspotIsOffsetOfThisCall ==
    (op = "XML_parse" /\ ~XML_is_valid(xml)) => failspot = Uint(obs.stop)

\* C10: when XML_parse fails on a string of length n, failspot is a position
\* of that string: 0 <= failspot <= n.
C10_FailspotInsideInput ==
    (op = "XML_parse" /\ ~XML_is_valid(xml)) =>
        (failspot.hi = 0 /\ failspot.lo <= Len(arg.s))

\* C9: XML_parse and XML_unescape return a value for every string, and no
\* character they read lies beyond the terminator of the string read from.
C9_ReadsStopAtTerminator ==
    /\ op = "XML_parse" =>
          /\ xml.kind \in {"tag", "null"}
          /\ obs.mr <= Len(arg.s)
          /\ obs.sub
    /\ op = "XML_unescape" => obs.mr <= Len(arg.s)

\* a document cut inside a quoted value that ends in a partial entity
C9_Witness ==
    /\ op = "XML_parse"
    /\ arg.s = C("<a b=\"\" c=\"&l")
    /\ ~XML_is_valid(xml)
    /\ obs.mr = Len(arg.s)

(***************************************************************************)
(* Closing tags                                                            *)
(***************************************************************************)
ParseClose ==
    /\ op = "idle"
    /\ \E open \in TagNames, close \in TagNames :
       \E body \in {<< >>, <<"x">>}, pad \in {<< >>, <<" ">>} :
          DoParse([s |-> CloseDoc(open, body, pad, close), family |-> "close",
                   open |-> open, close |-> close])
    /\ UNCHANGED <<slack, text>>

NextClose == ParseClose \/ Drop

SpecClose == Init /\ [][NextClose]_vars

\* the name that stands at index p of s: the characters up to the first one
\* that cannot be part of a name
RECURSIVE NameRunAt(_, _)
NameRunAt(s, p) ==
    IF XML_isnamechar(Peek(s, p)) THEN <<Peek(s, p)>> \o NameRunAt(s, p + 1) ELSE << >>

\* C5: XML_parse succeeds on an element with a closing tag only if the name
\* in the closing tag is, byte for byte, the name of the opening tag.
C5_ClosingNameEqualsOpeningName ==
    (op = "XML_parse" /\ XML_is_valid(xml)) =>
        /\ \A i \in DOMAIN obs.closes :
              NameRunAt(arg.s, obs.closes[i].at) = obs.closes[i].name
        /\ arg.family = "close" => arg.open = arg.close

\* <ab>x</ab> is accepted
C5_Witness ==
    /\ op = "XML_parse"
    /\ arg.family = "close"
    /\ arg.open = <<"a", "b">>
    /\ arg.close = <<"a", "b">>
    /\ XML_is_valid(xml)
    /\ xml.contents = <<Str(<<"x">>)>>

(***************************************************************************)
(* Declarations, comments, CDATA sections and DOCTYPE in the input         *)
(***************************************************************************)
ParseMarkup ==
    /\ op = "idle"
    /\ \E m \in Markup, place \in MarkupPlaces :
          DoParse([s |-> MarkupDoc(m, place), family |-> "markup",
                   name |-> m.name, place |-> place])
    /\ UNCHANGED <<slack, text>>

NextMarkup == ParseMarkup \/ Drop

SpecMarkup == Init /\ [][NextMarkup]_vars

\* x is, or has among its descendants, an element called name
RECURSIVE HasElement(_, _)
HasElement(x, name) ==
    /\ x.kind = "tag"
    /\ \/ x.name = name
       \/ \E i \in DOMAIN x.contents : HasElement(x.contents[i], name)

SeqsUpTo(S, n) == UNION {[1..k -> S] : k \in 0..n}

MaxAttrs == 2
AttrNames == {C("k"), C("j")}
AttrValues == {C(""), C("v"), C("w")}
AttrPairs == {Attr(n, v) : n \in AttrNames, v \in AttrValues}
AttrLists == SeqsUpTo(AttrPairs, MaxAttrs)

\* elements with attributes, as text
AttrDocs ==
    { C("<a/>"), C("<a k=\"\" k=\"v\" j=\"&lt;\"/>"), C("<a k=\"v\" k=\"\">x</a>"),
      C("<a j=\"\" kk=\"w\"/>") }

LookupNames == AttrNames \cup {C("kk"), C("")}

BuildFlat ==
    /\ op = "idle"
    /\ \E attrs \in AttrLists :
          /\ xml' = XML_tag(C("a"), attrs, << >>)
          /\ op' = "XML_tag"
          /\ arg' = [s |-> << >>, family |-> "built"]
          /\ obs' = NoObs
    /\ UNCHANGED <<failp, failspot, slack, text>>

ParseAttrDoc ==
    /\ op = "idle"
    /\ \E d \in AttrDocs : DoParse([s |-> d, family |-> "attrs"])
    /\ UNCHANGED <<slack, text>>

GetAttr ==
    /\ op \in {"XML_tag", "XML_parse"}
    /\ xml.kind = "tag"
    /\ \E name \in LookupNames :
          /\ op' = "XML_get_attr"
          /\ arg' = [s |-> << >>, family |-> "lookup", name |-> name]
          /\ obs' = [fault |-> FALSE, found |-> XML_get_attr(xml, name)]
    /\ UNCHANGED <<failp, failspot, slack, xml, text>>

NextLookup == BuildFlat \/ ParseAttrDoc \/ GetAttr \/ Drop

SpecLookup == Init /\ [][NextLookup]_vars

\* C8: XML_get_attr returns NULL when no attribute has exactly that name;
\* otherwise the value of the first attribute so named, in the order given,
\* and an empty value is returned as found.
C8_FirstMatchOrNotFound ==
    op = "XML_get_attr" =>
        LET hits == {i \in DOMAIN xml.attrs : xml.attrs[i].name = arg.name}
            first == CHOOSE i \in hits : \A j \in hits : i <= j
        IN  IF hits = {} THEN obs.found.null
            ELSE ~obs.found.null /\ obs.found.str = xml.attrs[first].value

\* two attributes called k, the first with the empty value: found, and ""
C8_Witness ==
    /\ op = "XML_get_attr"
    /\ arg.name = C("k")
    /\ Len(xml.attrs) = 2
    /\ xml.attrs[1] = Attr(C("k"), C(""))
    /\ xml.attrs[2] = Attr(C("k"), C("v"))
    /\ ~obs.found.null
    /\ obs.found.str = C("")

(***************************************************************************)
(* Escaping and unescaping                                                 *)
(***************************************************************************)
InitMem == Fresh /\ slack \in MemStates

MaxStr == 4
CodecChars == {"<", "&", "\"", "l", "t", ";"}
CodecInputs == StrsUpTo(CodecChars, MaxStr)

Escape ==
    /\ op = "idle"
    /\ \E s \in CodecInputs : \E r \in {XML_escape(s, slack)} :
          /\ op' = "XML_escape"
          /\ arg' = [s |-> s, family |-> "plain", orig |-> s]
          /\ text' = IF r.fault THEN << >> ELSE r.val
          /\ obs' = [fault |-> r.fault]
    /\ UNCHANGED <<failp, failspot, slack, xml>>

\* XML_unescape on the string XML_escape returned
UnescapeBack ==
    /\ op = "XML_escape"
    /\ ~obs.fault
    /\ op' = "XML_unescape"
    /\ arg' = [s |-> text, family |-> "escaped", orig |-> arg.orig]
    /\ text' = XML_unescape(text)
    /\ obs' = [fault |-> FALSE, mr |-> UnescapeMaxRead(text)]
    /\ UNCHANGED <<failp, failspot, slack, xml>>

NextCodec == Escape \/ UnescapeBack \/ Drop

SpecCodec == InitMem /\ [][NextCodec]_vars

\* C3: for every string s, XML_escape(s) returns and XML_unescape of what it
\* returns is s.
C3_UnescapeInvertsEscape ==
    /\ op = "XML_escape" => ~obs.fault
    /\ (op = "XML_unescape" /\ arg.family = "escaped") => text = arg.orig

(***************************************************************************)
(* Trees: building, serializing, measuring, parsing again                  *)
(***************************************************************************)
MaxKids == 2
MaxDepth == 2

\* XML_tag takes any string for a name
BuildNames == {C("a"), C("a b")}
TreeAttrs ==
    { << >>, <<Attr(C("k"), C(""))>>, <<Attr(C("k"), C("v<")), Attr(C("j"), C("\""))>> }
KidTexts == {Str(C("&<")), Str(C(""))}

\* documents; compact ones have no optional whitespace, every special
\* character of their text and values escaped and empty elements self-closed
TreeDocs ==
    { [text |-> C("<a/>"), compact |-> TRUE],
      [text |-> C("<a k=\"v\">x</a>"), compact |-> TRUE],
      [text |-> C("<a k=\"&lt;&amp;amp;\">&quot;<b/>y</a>"), compact |-> TRUE],
      [text |-> C("<a k=\"\"/>"), compact |-> TRUE],
      [text |-> C("< a k = \"v\" ></ a >"), compact |-> FALSE],
      [text |-> C("<a>></a>"), compact |-> FALSE],
      [text |-> C("<a k=\"x>\"><b></b></a>"), compact |-> FALSE],
      [text |-> C("<a><b/>"), compact |-> FALSE] }

BuiltArg(depth) ==
    [s |-> << >>, family |-> "built", src |-> << >>, compact |-> FALSE,
     round |-> 0, first |-> << >>, depth |-> depth]

\* XML_tag with strings for children
Build ==
    /\ op = "idle"
    /\ \E name \in BuildNames : \E attrs \in TreeAttrs :
       \E kids \in SeqsUpTo(KidTexts, MaxKids) :
          xml' = XML_tag(name, attrs, kids)
    /\ op' = "XML_tag"
    /\ arg' = BuiltArg(1)
    /\ obs' = NoObs
    /\ UNCHANGED <<failp, failspot, slack, text>>

\* XML_tag with the tree built before among the children
Wrap ==
    /\ op = "XML_tag"
    /\ arg.depth < MaxDepth
    /\ \E name \in BuildNames :
       \E kids \in {<<xml>>} \cup {<<k, xml>> : k \in KidTexts} :
          xml' = XML_tag(name, << >>, kids)
    /\ op' = "XML_tag"
    /\ arg' = BuiltArg(arg.depth + 1)
    /\ obs' = NoObs
    /\ UNCHANGED <<failp, failspot, slack, text>>

ParseText ==
    /\ op = "idle"
    /\ \E d \in TreeDocs :
          DoParse([s |-> d.text, family |-> "parsed", src |-> d.text,
                   compact |-> d.compact, round |-> 0, first |-> << >>,
                   depth |-> 0])
    /\ UNCHANGED <<slack, text>>

\* XML_as_text on the tree held; a fault ends the process
Serialize ==
    /\ op \in {"XML_tag", "XML_parse"}
    /\ XML_is_valid(xml)
    /\ arg.round < 2
    /\ \E r \in {XML_as_text(xml, slack)} : \E out \in {IF r.fault THEN << >> ELSE r.val} :
          /\ op' = "XML_as_text"
          /\ text' = out
          /\ obs' = [fault |-> r.fault]
          /\ arg' = [arg EXCEPT !.round = @ + 1,
                                !.first = IF arg.round = 0 THEN out ELSE @]
    /\ UNCHANGED <<failp, failspot, slack, xml>>

\* XML_strlen on the tree just serialized
Measure ==
    /\ op = "XML_as_text"
    /\ ~obs.fault
    /\ \E r \in {XML_strlen(xml, slack)} :
          /\ op' = "XML_strlen"
          /\ obs' = [fault |-> r.fault, len |-> r.val]
    /\ UNCHANGED <<failp, failspot, slack, arg, xml, text>>

\* XML_parse on the text XML_as_text returned
Reparse ==
    /\ op = "XML_as_text"
    /\ ~obs.fault
    /\ arg.round = 1
    /\ DoParse([arg EXCEPT !.s = text])
    /\ UNCHANGED <<slack, text>>

NextTree == Build \/ Wrap \/ ParseText \/ Serialize \/ Measure \/ Reparse \/ Drop

SpecTree == InitMem /\ [][NextTree]_vars

\* C1: a tree built with XML_tag, serialized and parsed again, is accepted
\* and serializes to the same text.
C1_BuiltTreesRoundTrip ==
    arg.family = "built" =>
        /\ op = "XML_as_text" => ~obs.fault
        /\ op = "XML_parse" => XML_is_valid(xml)
        /\ (op = "XML_as_text" /\ arg.round = 2) => text = arg.first

\* C2: XML_strlen of a node is the number of characters XML_as_text writes
\* for it.
C2_MeasureIsSerializedLength ==
    /\ op = "XML_as_text" => ~obs.fault
    /\ op = "XML_strlen" => (~obs.fault /\ obs.len = Len(text))

\* C7: for a text t that parses, as_text(parse(t)) parses again and
\* serializes to itself, and is t when t is compact.
C7_ParseSerializeFixpoint ==
    arg.family = "parsed" =>
        /\ op = "XML_as_text" => ~obs.fault
        /\ (op = "XML_parse" /\ arg.round = 1) => XML_is_valid(xml)
        /\ (op = "XML_as_text" /\ arg.round = 2) => text = arg.first
        /\ (op = "XML_as_text" /\ arg.round = 1 /\ arg.compact) => text = arg.src

====
